---- MODULE Spec2Model ----
(***************************************************************************)
(* A model of World (src/world.cpp): the chunk registry, the pending       *)
(* block-change queue, visibility selection, ray queries over the visible  *)
(* chunks and the binary save/load of the world.                           *)
(*                                                                         *)
(* Chunk, GLFix and the block renderer are collaborators whose code is not *)
(* part of world.cpp; they are modelled through the interface world.cpp    *)
(* uses (see the comments at each such definition).                        *)
(***************************************************************************)
EXTENDS Integers, Sequences, FiniteSets, TLC

(***************************************************************************)
(* Program constants.                                                      *)
(***************************************************************************)
\* Chunk::SIZE, pinned to 8 by the static_assert in getLocal.
SIZE == 8
\* World::HEIGHT and BLOCK_SIZE are set in headers; world.cpp only uses them.
\* The model is parametric in both.
HEIGHT == 2
BLOCK_SIZE == 2
\* The two block values world.cpp names.
BLOCK_AIR == 0
BLOCK_STONE == 1

(***************************************************************************)
(* Bounds of the model.                                                    *)
(***************************************************************************)
\* Longest pending-change queue an edit may build.
MaxPending == 2
\* Largest view radius (field_of_view) a World starts with.
MaxFov == 2
\* Largest seed value the allocator's memory may hold.
MaxSeed == 1
\* Largest chunk registry that is saved, and that a load may build.
MaxChunks == 3
\* Most operations between writing a stream and loading it.
MaxAge == 1
\* The largest GLFix value, which stands for GLFix::maxValue(); a chunk
\* reports distances from 1 up to it.
GLFixMax == 3
\* Most chunks that report a hit in one ray query.
MaxHits == 2
\* A ray query's hits fall among this many leading visible chunks.
MaxTargets == 3
\* getLocal and getChunk are applied to -MaxCoord..MaxCoord, INT_MIN and INT_MAX.
MaxCoord == 50

(***************************************************************************)
(* Two's complement arithmetic on int, bit by bit.                         *)
(***************************************************************************)
\* v >> 1 on a signed int: the low bit is dropped and the sign bit is copied
\* in (the arithmetic shift).
Shr1(v) == (v - (v % 2)) \div 2

\* a & b for b >= 0, bit by bit from the low end; once the bits of b run
\* out the remaining bits of the result are 0.
RECURSIVE BitAnd(_, _)
BitAnd(a, b) ==
    IF b = 0 THEN 0
    ELSE (a % 2) * (b % 2) + 2 * BitAnd(Shr1(a), Shr1(b))

\* a >> n on a signed int.
RECURSIVE ShiftRight(_, _)
ShiftRight(a, n) == IF n = 0 THEN a ELSE ShiftRight(Shr1(a), n - 1)

\* global & 0b111.
getLocal(global) == BitAnd(global, 7)

\* A variant: global / 8, which rounds towards zero.
getChunkBug(global) ==
    IF global < 0 /\ global % 8 # 0 THEN ShiftRight(global, 3) + 1
    ELSE ShiftRight(global, 3)
\* global >> 3.
getChunk(global) == ShiftRight(global, 3)

\* (GLFix(v) / BLOCK_SIZE).floor(): the position in block units, rounded down.
PosToBlock(v) == v \div BLOCK_SIZE

Min(S) == CHOOSE m \in S : \A n \in S : m <= n
MinOf(a, b) == IF a < b THEN a ELSE b
MaxOf(a, b) == IF a > b THEN a ELSE b

(***************************************************************************)
(* Inputs.                                                                 *)
(***************************************************************************)
\* One chunk edge in position units.
ChunkSpan == SIZE * BLOCK_SIZE
\* Viewer positions: two x that fall in the same chunk; y below the floor,
\* on it, and above the ceiling.
PosXs == {0, ChunkSpan - 1}
PosYs == {-1, 0, HEIGHT * ChunkSpan}
PosZs == {0}
\* World coordinates of the blocks that get edited: one cell of chunk
\* (0,0,0) and one cell of chunk (-1,1,0).
EditPoints == {<<0, 0, 0>>, <<-1, 9, 0>>}
EditBlocks == {BLOCK_AIR, BLOCK_STONE}
\* World coordinates getBlock is asked about: the edited blocks, and the same
\* column one chunk below the floor, in the layer HEIGHT and in the layer
\* above it.
QueryPoints ==
    EditPoints \cup {<<0, -SIZE, 0>>, <<0, SIZE * HEIGHT, 0>>, <<0, SIZE * (HEIGHT + 1), 0>>}
Seeds == 0..MaxSeed
Fovs == 0..MaxFov

(***************************************************************************)
(* Chunk, through the interface world.cpp uses.  A chunk's block array is  *)
(* kept for the local cells the edits can address.                         *)
(***************************************************************************)
Cells == {<<getLocal(p[1]), getLocal(p[2]), getLocal(p[3])>> : p \in EditPoints}

\* Chunk::generate(): terrain is a function of the seed and the place.
Terrain(sd, x, y, z, cell) ==
    IF (sd + x + y + z + cell[1] + cell[2] + cell[3]) % 2 = 0
    THEN BLOCK_STONE ELSE BLOCK_AIR

\* new Chunk(x, y, z, this) followed by generate().
NewChunk(sd, x, y, z) ==
    [x |-> x, y |-> y, z |-> z,
     blocks |-> [cell \in Cells |-> Terrain(sd, x, y, z, cell)]]

\* Chunk::setLocalBlock and Chunk::changeLocalBlock both store the block.
setLocalBlock(c, lx, ly, lz, block) ==
    [c EXCEPT !.blocks[<<lx, ly, lz>>] = block]
changeLocalBlock(c, lx, ly, lz, block) ==
    [c EXCEPT !.blocks[<<lx, ly, lz>>] = block]
getLocalBlock(c, lx, ly, lz) == c.blocks[<<lx, ly, lz>>]

(***************************************************************************)
(* The state.                                                              *)
(***************************************************************************)
VARIABLES
    seed,                   \* *seed
    noise_seed,             \* the seed perlin_noise was last given
    pending_block_changes,  \* the queue of BLOCK_CHANGE records
    field_of_view,          \* the view radius
    all_chunks,             \* the registry, in push_back order
    visible_chunks,         \* Chunk* as indices into all_chunks
    cen_x, cen_y, cen_z,    \* the centered chunk coordinate
    loaded,
    file,                   \* the bytes of the stream saveToFile wrote
    saved,                  \* what the World held when file was written
    age,                    \* operations since file was written
    op,                     \* the last operation and its arguments
    ret,                    \* what the last operation returned
    dirtied,                \* chunks that got setDirty() in the last operation
    generated,              \* registry indices the last operation generated
    drained,                \* how many pending entries the last operation applied
    ray,                    \* the chunk reports and outputs of the last ray query
    coord                   \* argument and results of getLocal / getChunk

config == <<seed, noise_seed, field_of_view>>
world == <<config, pending_block_changes, all_chunks,
           visible_chunks, cen_x, cen_y, cen_z, loaded>>
disk == <<file, saved, age>>
vars == <<world, disk, op, ret, dirtied, generated, drained, ray, coord>>

NoRet == "void"
NoHit == [hit |-> FALSE]
Unset == "unset"
NoRay == [hits |-> <<>>, result |-> Unset, side |-> Unset]
NoCoord == [arg |-> 0, chunk |-> 0, local |-> 0, done |-> FALSE]
NoFile == <<>>
NoSaved == [seed |-> 0, pending |-> <<>>, fov |-> 0, chunks |-> <<>>]

(***************************************************************************)
(* Registry lookup and generation.                                         *)
(***************************************************************************)
\* The index of the first chunk at (x, y, z), 0 for nullptr.
findChunk(chunks, x, y, z) ==
    LET S == {i \in 1..Len(chunks) :
                chunks[i].x = x /\ chunks[i].y = y /\ chunks[i].z = z}
    IN IF S = {} THEN 0 ELSE Min(S)

Targets(bc, c) == c.x = bc.chunk_x /\ c.y = bc.chunk_y /\ c.z = bc.chunk_z

\* The loop over pending_block_changes of generateChunk: `it` is the
\* iterator's index; erase() leaves it on the following entry.
RECURSIVE DrainLoop(_, _, _)
DrainLoop(c, pend, it) ==
    IF it > Len(pend) THEN [chunk |-> c, pending |-> pend]
    ELSE IF Targets(pend[it], c)
    THEN DrainLoop(setLocalBlock(c, pend[it].local_x, pend[it].local_y,
                                 pend[it].local_z, pend[it].block),
                   SubSeq(pend, 1, it - 1) \o SubSeq(pend, it + 1, Len(pend)),
                   it)
    ELSE DrainLoop(c, pend, it + 1)

\* Variants of the loop: one that empties the queue, and one that removes
\* the matching entries without applying them.
DrainBugAll(c, pend) ==
    LET d == DrainLoop(c, pend, 1) IN [chunk |-> d.chunk, pending |-> <<>>]
DrainBugSkip(c, pend) ==
    LET d == DrainLoop(c, pend, 1) IN [chunk |-> c, pending |-> d.pending]
\* A variant that applies the matching entries in the reverse of queue order.
DrainBugReverse(c, pend) ==
    LET rev == [i \in 1..Len(pend) |-> pend[Len(pend) + 1 - i]]
    IN [chunk |-> DrainLoop(c, rev, 1).chunk, pending |-> DrainLoop(c, pend, 1).pending]
Drain(c, pend) == DrainLoop(c, pend, 1)

\* A variant that marks every chunk of the registry.
NeighboursBug(chunks, x, y, z) == 1..Len(chunks)
\* The six axis-adjacent neighbours that exist.
Neighbours(chunks, x, y, z) ==
    {findChunk(chunks, x - 1, y, z), findChunk(chunks, x + 1, y, z),
     findChunk(chunks, x, y - 1, z), findChunk(chunks, x, y + 1, z),
     findChunk(chunks, x, y, z - 1), findChunk(chunks, x, y, z + 1)} \ {0}

\* w = [chunks, pending, visible, dirt]: the part of the World that
\* generateChunk and setChunkVisible read and write.
generateChunk(w, sd, x, y, z) ==
    LET d == Drain(NewChunk(sd, x, y, z), w.pending)
    IN [w EXCEPT !.dirt = w.dirt \cup Neighbours(w.chunks, x, y, z),
                 !.chunks = Append(w.chunks, d.chunk),
                 !.pending = d.pending]

\* A variant that generates without looking the coordinate up.
setChunkVisibleBug(w, sd, x, y, z) ==
    LET g == generateChunk(w, sd, x, y, z)
    IN [g EXCEPT !.visible = Append(g.visible, Len(g.chunks))]
setChunkVisible(w, sd, x, y, z) ==
    LET c == findChunk(w.chunks, x, y, z)
        g == IF c = 0 THEN generateChunk(w, sd, x, y, z) ELSE w
        p == IF c = 0 THEN Len(g.chunks) ELSE c
    IN [g EXCEPT !.visible = Append(g.visible, p)]

(***************************************************************************)
(* Visibility selection.                                                   *)
(***************************************************************************)
\* round(sqrt(n)) for an integer n >= 0: sqrt(n) is never half way between
\* two integers, so the result is the r with (r - 1/2)^2 <= n < (r + 1/2)^2.
RoundSqrt(n) ==
    CHOOSE r \in 0..(n + 1) : /\ (r = 0 \/ (2 * r - 1) * (2 * r - 1) <= 4 * n)
                              /\ 4 * n < (2 * r + 1) * (2 * r + 1)

\* The offsets of the cube [-dist, dist]^3 in the order the three nested loops
\* visit them, x outermost.
CubeOffsets(dist) ==
    LET n == 2 * dist + 1
    IN [k \in 1..(n * n * n) |->
          <<((k - 1) \div (n * n)) - dist,
            (((k - 1) \div n) % n) - dist,
            ((k - 1) % n) - dist>>]

\* The offsets of shell `dist` that the loop body does not skip.
ShellOffsets(dist, chunk_y) ==
    LET Keep(o) == ~ (chunk_y + o[2] < 0 \/ chunk_y + o[2] >= HEIGHT
                      \/ RoundSqrt(o[1] * o[1] + o[2] * o[2] + o[3] * o[3]) # dist)
    IN SelectSeq(CubeOffsets(dist), Keep)

RECURSIVE ShellsFrom(_, _, _)
ShellsFrom(dist, fov, chunk_y) ==
    IF dist > fov THEN <<>>
    ELSE ShellOffsets(dist, chunk_y) \o ShellsFrom(dist + 1, fov, chunk_y)

\* Every offset setPosition makes visible, the center first.
VisitOffsets(fov, chunk_y) == <<<<0, 0, 0>>>> \o ShellsFrom(1, fov, chunk_y)

\* VisitOffsets, computed once for the radii and heights of the model.
VisitTable == [fov \in Fovs |-> [chunk_y \in 0..(HEIGHT - 1) |-> VisitOffsets(fov, chunk_y)]]

\* A variant that leaves out the outermost shell.
VisitOrderShort(fov, chunk_y) == <<<<0, 0, 0>>>> \o ShellsFrom(1, fov - 1, chunk_y)
VisitOrder(fov, chunk_y) ==
    IF fov \in Fovs /\ chunk_y \in 0..(HEIGHT - 1)
    THEN VisitTable[fov][chunk_y]
    ELSE VisitOffsets(fov, chunk_y)

\* setChunkVisible for offs[i..], in this order, starting from w.  The test
\* on v always holds: it makes v a computed value before the next call.
RECURSIVE MakeVisible(_, _, _, _, _, _, _)
MakeVisible(w, sd, offs, i, chunk_x, chunk_y, chunk_z) ==
    IF i > Len(offs) THEN w
    ELSE LET v == setChunkVisible(w, sd, chunk_x + offs[i][1],
                                  chunk_y + offs[i][2], chunk_z + offs[i][3])
         IN IF Len(v.visible) = i
            THEN MakeVisible(v, sd, offs, i + 1, chunk_x, chunk_y, chunk_z)
            ELSE v

\* A variant that lets the center reach the layer above the ceiling.
ClampYBug(chunk_y) == MaxOf(0, MinOf(chunk_y, HEIGHT))
ClampY(chunk_y) == MaxOf(0, MinOf(chunk_y, HEIGHT - 1))

\* A variant that takes the position for a block coordinate.
CenterOfBug(x, y, z) == <<getChunk(x), ClampY(getChunk(y)), getChunk(z)>>
\* The chunk coordinate setPosition computes from a position.
CenterOf(x, y, z) ==
    <<getChunk(PosToBlock(x)), ClampY(getChunk(PosToBlock(y))), getChunk(PosToBlock(z))>>

\* A variant that does not look at loaded.
MustRecomputeBug(c) == c[1] # cen_x \/ c[2] # cen_y \/ c[3] # cen_z
\* if(!loaded || (chunk_x != cen_x || chunk_y != cen_y || chunk_z != cen_z))
MustRecompute(c) == ~loaded \/ (c[1] # cen_x \/ c[2] # cen_y \/ c[3] # cen_z)

\* What an operation on the World leaves alone: the caller's outputs of
\* other calls, and the stream on disk, which gets one operation older.
Frame ==
    /\ file # NoFile => age < MaxAge
    /\ age' = IF file = NoFile THEN 0 ELSE age + 1
    /\ ray' = NoRay
    /\ UNCHANGED <<file, saved, coord>>

setPosition(x, y, z) ==
    LET c == CenterOf(x, y, z)
        w0 == [chunks |-> all_chunks, pending |-> pending_block_changes,
               visible |-> <<>>, dirt |-> {}]
        offs == VisitOrder(field_of_view, c[2])
        w == MakeVisible(w0, noise_seed, offs, 1, c[1], c[2], c[3])
    IN /\ IF MustRecompute(c)
          THEN /\ all_chunks' = w.chunks
               /\ pending_block_changes' = w.pending
               /\ visible_chunks' = w.visible
               /\ dirtied' = w.dirt
               /\ generated' = (Len(all_chunks) + 1)..Len(w.chunks)
               /\ drained' = Len(pending_block_changes) - Len(w.pending)
               /\ cen_x' = c[1]
               /\ cen_y' = c[2]
               /\ cen_z' = c[3]
               /\ loaded' = TRUE
          ELSE /\ UNCHANGED <<all_chunks, pending_block_changes, visible_chunks,
                              cen_x, cen_y, cen_z, loaded>>
               /\ dirtied' = {}
               /\ generated' = {}
               /\ drained' = 0
       /\ op' = [name |-> "setPosition", args |-> <<x, y, z>>]
       /\ ret' = NoRet
       /\ UNCHANGED config
       /\ Frame

(***************************************************************************)
(* Block edits.                                                            *)
(***************************************************************************)
BlockChange(x, y, z, block) ==
    [chunk_x |-> getChunk(x), chunk_y |-> getChunk(y), chunk_z |-> getChunk(z),
     local_x |-> getLocal(x), local_y |-> getLocal(y), local_z |-> getLocal(z),
     block |-> block]

setBlock(x, y, z, block) ==
    LET bc == BlockChange(x, y, z, block)
        c == findChunk(all_chunks, bc.chunk_x, bc.chunk_y, bc.chunk_z)
    IN /\ c = 0 => Len(pending_block_changes) < MaxPending
       /\ IF c # 0
          THEN /\ all_chunks' = [all_chunks EXCEPT ![c] =
                     setLocalBlock(@, bc.local_x, bc.local_y, bc.local_z, block)]
               /\ UNCHANGED pending_block_changes
          ELSE /\ pending_block_changes' = Append(pending_block_changes, bc)
               /\ UNCHANGED all_chunks
       /\ op' = [name |-> "setBlock", args |-> <<x, y, z, block>>]
       /\ ret' = NoRet
       /\ dirtied' = {}
       /\ generated' = {}
       /\ drained' = 0
       /\ UNCHANGED <<config, visible_chunks, cen_x, cen_y, cen_z, loaded>>
       /\ Frame

changeBlock(x, y, z, block) ==
    LET bc == BlockChange(x, y, z, block)
        c == findChunk(all_chunks, bc.chunk_x, bc.chunk_y, bc.chunk_z)
    IN /\ c = 0 => Len(pending_block_changes) < MaxPending
       /\ IF c # 0
          THEN /\ all_chunks' = [all_chunks EXCEPT ![c] =
                     changeLocalBlock(@, bc.local_x, bc.local_y, bc.local_z, block)]
               /\ UNCHANGED pending_block_changes
          ELSE /\ pending_block_changes' = Append(pending_block_changes, bc)
               /\ UNCHANGED all_chunks
       /\ op' = [name |-> "changeBlock", args |-> <<x, y, z, block>>]
       /\ ret' = NoRet
       /\ dirtied' = {}
       /\ generated' = {}
       /\ drained' = 0
       /\ UNCHANGED <<config, visible_chunks, cen_x, cen_y, cen_z, loaded>>
       /\ Frame

\* A variant that deletes the chunks and keeps the visible list.
clearBug ==
    /\ all_chunks' = <<>>
    /\ loaded' = FALSE
    /\ op' = [name |-> "clear", args |-> <<>>]
    /\ ret' = NoRet
    /\ dirtied' = {}
    /\ generated' = {}
    /\ drained' = 0
    /\ UNCHANGED <<config, pending_block_changes, visible_chunks, cen_x, cen_y, cen_z>>
    /\ Frame
clear ==
    /\ all_chunks' = <<>>
    /\ visible_chunks' = <<>>
    /\ loaded' = FALSE
    /\ op' = [name |-> "clear", args |-> <<>>]
    /\ ret' = NoRet
    /\ dirtied' = {}
    /\ generated' = {}
    /\ drained' = 0
    /\ UNCHANGED <<config, pending_block_changes, cen_x, cen_y, cen_z>>
    /\ Frame

(***************************************************************************)
(* Block queries.                                                          *)
(***************************************************************************)
\* A variant that takes every layer from HEIGHT up for the top.
FallbackBug(chunk_y) == IF chunk_y >= HEIGHT THEN BLOCK_AIR ELSE BLOCK_STONE
\* What getBlock returns for a coordinate whose chunk is absent.
Fallback(chunk_y) == IF chunk_y = HEIGHT THEN BLOCK_AIR ELSE BLOCK_STONE

\* A variant that answers for an absent chunk from the last queued change of
\* the cell, when there is one.
BlockAtBug(x, y, z) ==
    LET c == findChunk(all_chunks, getChunk(x), getChunk(y), getChunk(z))
        q == {i \in 1..Len(pending_block_changes) :
                 pending_block_changes[i] = BlockChange(x, y, z, pending_block_changes[i].block)}
    IN IF c # 0 THEN getLocalBlock(all_chunks[c], getLocal(x), getLocal(y), getLocal(z))
       ELSE IF q # {} THEN pending_block_changes[CHOOSE i \in q : \A j \in q : j <= i].block
       ELSE Fallback(getChunk(y))
\* What getBlock(x, y, z) returns in the current state.
BlockAt(x, y, z) ==
    LET c == findChunk(all_chunks, getChunk(x), getChunk(y), getChunk(z))
    IN IF c = 0 THEN Fallback(getChunk(y))
       ELSE getLocalBlock(all_chunks[c], getLocal(x), getLocal(y), getLocal(z))

getBlock(x, y, z) ==
    /\ ret' = BlockAt(x, y, z)
    /\ op' = [name |-> "getBlock", args |-> <<x, y, z>>]
    /\ dirtied' = {}
    /\ generated' = {}
    /\ drained' = 0
    /\ UNCHANGED world
    /\ Frame

\* A variant that asks the renderer without a chunk.
ActionResultBug(c, acted) == acted
\* What blockAction returns: false without a chunk (c = 0), else what the
\* renderer's action reports.
ActionResult(c, acted) == IF c = 0 THEN FALSE ELSE acted

\* blockAction(x, y, z).  On a chunk that exists the block renderer's action
\* decides: it gets the chunk and the local cell, reports whether it acted
\* (acted), and when it acted it leaves `block` in that cell.
blockAction(x, y, z, acted, block) ==
    LET c == findChunk(all_chunks, getChunk(x), getChunk(y), getChunk(z))
    IN /\ ret' = ActionResult(c, acted)
       /\ IF c = 0
          THEN UNCHANGED all_chunks
          ELSE all_chunks' =
                     IF acted
                     THEN [all_chunks EXCEPT ![c] =
                             changeLocalBlock(@, getLocal(x), getLocal(y), getLocal(z), block)]
                     ELSE all_chunks
       /\ op' = [name |-> "blockAction", args |-> <<x, y, z>>]
       /\ dirtied' = {}
       /\ generated' = {}
       /\ drained' = 0
       /\ UNCHANGED <<config, pending_block_changes, visible_chunks,
                      cen_x, cen_y, cen_z, loaded>>
       /\ Frame

(***************************************************************************)
(* Ray queries.  Chunk::intersectsRay is the collaborator's: what each     *)
(* visible chunk reports is an input of the query.                         *)
(***************************************************************************)
Sides == {"A", "B"}
\* The chunk-local hit position that goes with a side.
LocalPos(s) == IF s = "A" THEN <<1, 2, 3>> ELSE <<7, 0, 5>>
\* What a chunk that is hit may report.
Reports ==
    {[hit |-> TRUE, dist |-> 1, pos |-> LocalPos(s), side |-> s] : s \in Sides}
    \cup {[hit |-> TRUE, dist |-> 2, pos |-> LocalPos("B"), side |-> "B"],
          [hit |-> TRUE, dist |-> GLFixMax, pos |-> LocalPos("A"), side |-> "A"]}

\* Variants of the test: one that also skips a hit at an equal distance, and
\* one that skips nothing.
SkipsBug(new_dist, shortest_dist) == new_dist >= shortest_dist
SkipsNever(new_dist, shortest_dist) == FALSE
\* if(new_dist > shortest_dist) continue;
Skips(new_dist, shortest_dist) == new_dist > shortest_dist

\* pos + c->x*Chunk::SIZE and so on.
WorldPos(pos, c) == <<pos[1] + c.x * SIZE, pos[2] + c.y * SIZE, pos[3] + c.z * SIZE>>

\* The loop of intersectsRay from visible chunk i on; st holds result, side
\* and shortest_dist.
RECURSIVE RayLoop(_, _, _)
RayLoop(st, hits, i) ==
    IF i > Len(visible_chunks) THEN st
    ELSE IF hits[i].hit /\ ~ Skips(hits[i].dist, st.shortest_dist)
    THEN RayLoop([result |-> WorldPos(hits[i].pos, all_chunks[visible_chunks[i]]),
                  side |-> hits[i].side,
                  shortest_dist |-> hits[i].dist], hits, i + 1)
    ELSE RayLoop(st, hits, i + 1)

intersectsRay(hits) ==
    LET st == RayLoop([result |-> Unset, side |-> Unset, shortest_dist |-> GLFixMax],
                      hits, 1)
    IN /\ ray = NoRay
       /\ ray' = [hits |-> hits, result |-> st.result, side |-> st.side]
       /\ ret' = (st.shortest_dist # GLFixMax)
       /\ op' = [name |-> "intersectsRay", args |-> <<>>]
       /\ dirtied' = {}
       /\ generated' = {}
       /\ drained' = 0
       /\ UNCHANGED <<world, disk, coord>>

\* The reports of a query in which the chunks of H are hit.
HitMaps(H) ==
    {[i \in 1..Len(visible_chunks) |-> IF i \in H THEN f[i] ELSE NoHit] : f \in [H -> Reports]}

(***************************************************************************)
(* Persistence.  fwrite and fread move the bytes of an object as they lie   *)
(* in memory: an int is four bytes, low byte first, two's complement.      *)
(***************************************************************************)
IntBytes(v) ==
    <<v % 256, (v \div 256) % 256, (v \div 65536) % 256, (v \div 16777216) % 256>>

\* The int the four bytes b hold.
BytesInt(b) ==
    b[1] + 256 * b[2] + 65536 * b[3]
    + 16777216 * (IF b[4] >= 128 THEN b[4] - 256 ELSE b[4])

SizeofInt == Len(IntBytes(0))

\* A BLOCK_CHANGE: six ints, then the block with its padding.
BcBytes(bc) ==
    IntBytes(bc.chunk_x) \o IntBytes(bc.chunk_y) \o IntBytes(bc.chunk_z)
    \o IntBytes(bc.local_x) \o IntBytes(bc.local_y) \o IntBytes(bc.local_z)
    \o IntBytes(bc.block)

BytesBc(b) ==
    [chunk_x |-> BytesInt(SubSeq(b, 1, 4)), chunk_y |-> BytesInt(SubSeq(b, 5, 8)),
     chunk_z |-> BytesInt(SubSeq(b, 9, 12)), local_x |-> BytesInt(SubSeq(b, 13, 16)),
     local_y |-> BytesInt(SubSeq(b, 17, 20)), local_z |-> BytesInt(SubSeq(b, 21, 24)),
     block |-> BytesInt(SubSeq(b, 25, 28))]

\* A value-initialised BLOCK_CHANGE, as vector::resize appends them.
ZeroBc == BytesBc([i \in 1..28 |-> 0])
SizeofBc == Len(BcBytes(ZeroBc))

RECURSIVE Flat(_)
Flat(ss) == IF ss = <<>> THEN <<>> ELSE Head(ss) \o Flat(Tail(ss))

\* The cells of a chunk body in the order they are stored.
RECURSIVE SeqOfSet(_)
SeqOfSet(S) ==
    IF S = {} THEN <<>>
    ELSE LET m == CHOOSE a \in S : \A b \in S :
                    \/ a[1] < b[1]
                    \/ (a[1] = b[1] /\ a[2] < b[2])
                    \/ (a[1] = b[1] /\ a[2] = b[2] /\ a[3] <= b[3])
         IN <<m>> \o SeqOfSet(S \ {m})
CellSeq == SeqOfSet(Cells)

\* Chunk::saveToFile: the blocks, two bytes each.
ChunkBody(c) ==
    Flat([i \in 1..Len(CellSeq) |->
            <<c.blocks[CellSeq[i]] % 256, (c.blocks[CellSeq[i]] \div 256) % 256>>])
SizeofBody == 2 * Len(CellSeq)

\* Chunk::loadFromFile on a complete body.
BodyBlocks(b) ==
    [cell \in Cells |->
        LET i == CHOOSE k \in 1..Len(CellSeq) : CellSeq[k] = cell
        IN b[2 * i - 1] + 256 * b[2 * i]]

ChunkRecord(c) == IntBytes(c.x) \o IntBytes(c.y) \o IntBytes(c.z) \o ChunkBody(c)

\* A variant that writes the view radius before the pending records.
SerializeBugOrder(sd, pend, fov, chunks) ==
    IntBytes(sd) \o IntBytes(fov) \o IntBytes(Len(pend))
    \o Flat([i \in 1..Len(pend) |-> BcBytes(pend[i])])
    \o Flat([i \in 1..Len(chunks) |-> ChunkRecord(chunks[i])])
\* Everything saveToFile writes when no fwrite fails.
Serialize(sd, pend, fov, chunks) ==
    IntBytes(sd) \o IntBytes(Len(pend))
    \o Flat([i \in 1..Len(pend) |-> BcBytes(pend[i])])
    \o IntBytes(fov)
    \o Flat([i \in 1..Len(chunks) |-> ChunkRecord(chunks[i])])

\* saveToFile into a stream that takes every fwrite.
saveToFile ==
    /\ Len(all_chunks) <= MaxChunks
    /\ file' = Serialize(seed, pending_block_changes, field_of_view, all_chunks)
    /\ saved' = [seed |-> seed, pending |-> pending_block_changes,
                 fov |-> field_of_view, chunks |-> all_chunks]
    /\ age' = 0
    /\ op' = [name |-> "saveToFile", args |-> <<>>]
    /\ ret' = TRUE
    /\ dirtied' = {}
    /\ generated' = {}
    /\ drained' = 0
    /\ ray' = NoRay
    /\ UNCHANGED <<world, coord>>

\* A variant in which no fread comes up short.
FreadOkBug(bytes, pos, size) == TRUE
\* fread(&var, size, 1, file) == 1 at offset pos of the stream.
FreadOk(bytes, pos, size) == pos + size <= Len(bytes)

\* The bytes at pos; past the end of the stream they read as 0.
Field(bytes, pos, size) ==
    [i \in 1..size |-> IF pos + i <= Len(bytes) THEN bytes[pos + i] ELSE 0]

\* What a short fread leaves in the object whose bytes were `old`: the
\* bytes that were still there replace its first bytes when the library
\* copies a partial element (partial), and nothing changes when it does not.
ShortRead(old, bytes, pos, partial) ==
    IF partial /\ pos < Len(bytes)
    THEN [i \in 1..Len(old) |-> IF pos + i <= Len(bytes) THEN bytes[pos + i] ELSE old[i]]
    ELSE old

\* pending_block_changes.resize(n).
Resize(pend, n) == [i \in 1..n |-> IF i <= Len(pend) THEN pend[i] ELSE ZeroBc]

\* !feof(file) is false once a read has hit the end of the stream.
LoopDone(bytes, pos, eof) == eof

\* The while(!feof(file)) loop: r is the World so far, pos the stream offset.
RECURSIVE LoadChunks(_, _, _, _)
LoadChunks(r, bytes, pos, eof) ==
    IF LoopDone(bytes, pos, eof) THEN [r EXCEPT !.ret = TRUE]
    ELSE IF ~ FreadOk(bytes, pos, 3 * SizeofInt) THEN [r EXCEPT !.ret = FALSE]
    ELSE IF ~ FreadOk(bytes, pos + 3 * SizeofInt, SizeofBody) THEN [r EXCEPT !.ret = FALSE]
    ELSE LET c == [x |-> BytesInt(Field(bytes, pos, SizeofInt)),
                   y |-> BytesInt(Field(bytes, pos + SizeofInt, SizeofInt)),
                   z |-> BytesInt(Field(bytes, pos + 2 * SizeofInt, SizeofInt)),
                   blocks |-> BodyBlocks(Field(bytes, pos + 3 * SizeofInt, SizeofBody))]
             next == pos + 3 * SizeofInt + SizeofBody
         IN LoadChunks([r EXCEPT !.chunks = Append(r.chunks, c)], bytes,
                       MinOf(next, Len(bytes)), eof \/ next > Len(bytes))

\* loadFromFile on the stream `bytes`: what it returns and what it leaves in
\* the World.
LoadResult(bytes, partial) ==
    LET r0 == [ret |-> FALSE, seed |-> seed, noise |-> noise_seed,
               pending |-> pending_block_changes, fov |-> field_of_view,
               chunks |-> all_chunks]
        sd == BytesInt(Field(bytes, 0, SizeofInt))
        r1 == [r0 EXCEPT !.seed = sd, !.noise = sd]
        n == BytesInt(Field(bytes, SizeofInt, SizeofInt))
        start == 2 * SizeofInt
        got == MinOf(n, MaxOf(0, (Len(bytes) - start) \div SizeofBc))
        resized == Resize(pending_block_changes, n)
        read == [i \in 1..n |->
                   IF i <= got THEN BytesBc(Field(bytes, start + (i - 1) * SizeofBc, SizeofBc))
                   ELSE IF i = got + 1
                   THEN BytesBc(ShortRead(BcBytes(resized[i]), bytes,
                                          start + got * SizeofBc, partial))
                   ELSE resized[i]]
        r2 == [r1 EXCEPT !.pending = read]
        fovAt == start + n * SizeofBc
        r3 == [r2 EXCEPT !.fov = BytesInt(Field(bytes, fovAt, SizeofInt))]
    IN IF ~ FreadOk(bytes, 0, SizeofInt)
       THEN [r0 EXCEPT !.seed = BytesInt(ShortRead(IntBytes(seed), bytes, 0, partial))]
       ELSE IF ~ FreadOk(bytes, SizeofInt, SizeofInt) THEN r1
       ELSE IF got # n THEN r2
       ELSE IF ~ FreadOk(bytes, fovAt, SizeofInt)
       THEN [r2 EXCEPT !.fov = BytesInt(ShortRead(IntBytes(field_of_view), bytes,
                                                  fovAt, partial))]
       ELSE LoadChunks(r3, bytes, fovAt + SizeofInt, FALSE)

\* Where a stream of len bytes ends, for the stream that was written from
\* `saved`: inside which field or record, or on the boundary after the view
\* radius or after a chunk record, where a shorter stream would end.
CutKind(len) ==
    LET pendAt == 2 * SizeofInt
        fovAt == pendAt + Len(saved.pending) * SizeofBc
        chunksAt == fovAt + SizeofInt
        off == (len - chunksAt) % (3 * SizeofInt + SizeofBody)
    IN IF len = Len(file) THEN "whole"
       ELSE IF len < SizeofInt THEN "seed"
       ELSE IF len < pendAt THEN "count"
       ELSE IF len < fovAt THEN "pending"
       ELSE IF len < chunksAt THEN "fov"
       ELSE IF off = 0 THEN "boundary"
       ELSE IF off < 3 * SizeofInt THEN "coords"
       ELSE "body"

\* loadFromFile(file) when the stream ends after `len` bytes of what was
\* written (all of it, or a stream that was cut off).
loadFromFile(len, partial) ==
    LET r == LoadResult(SubSeq(file, 1, len), partial)
    IN /\ file # NoFile
       /\ len <= Len(file)
       /\ Len(r.chunks) <= MaxChunks
       /\ seed' = r.seed
       /\ noise_seed' = r.noise
       /\ pending_block_changes' = r.pending
       /\ field_of_view' = r.fov
       /\ all_chunks' = r.chunks
       /\ op' = [name |-> "loadFromFile", args |-> <<CutKind(len)>>]
       /\ ret' = r.ret
       /\ dirtied' = {}
       /\ generated' = {}
       /\ drained' = 0
       /\ file' = NoFile
       /\ saved' = NoSaved
       /\ age' = 0
       /\ ray' = NoRay
       /\ UNCHANGED <<visible_chunks, cen_x, cen_y, cen_z, loaded, coord>>

\* ~World() and World(): the host starts over with a new World.
construct ==
    /\ seed' \in Seeds
    /\ noise_seed' = seed'
    /\ field_of_view' \in Fovs
    /\ pending_block_changes' = <<>>
    /\ all_chunks' = <<>>
    /\ visible_chunks' = <<>>
    /\ cen_x' = 0 /\ cen_y' = 0 /\ cen_z' = 0
    /\ loaded' = FALSE
    /\ op' = [name |-> "World", args |-> <<>>]
    /\ ret' = NoRet
    /\ dirtied' = {}
    /\ generated' = {}
    /\ drained' = 0
    /\ Frame

(***************************************************************************)
(* Specification.                                                          *)
(***************************************************************************)
\* World::World(): no chunk, nothing pending, not loaded.  The seed is
\* whatever the allocated memory holds; the view radius and the centered
\* coordinate get their values in the class declaration.
InitWorld ==
    /\ seed \in Seeds
    /\ noise_seed = seed
    /\ field_of_view \in Fovs
    /\ pending_block_changes = <<>>
    /\ all_chunks = <<>>
    /\ visible_chunks = <<>>
    /\ cen_x = 0 /\ cen_y = 0 /\ cen_z = 0
    /\ loaded = FALSE
    /\ file = NoFile
    /\ saved = NoSaved
    /\ age = 0
    /\ op = [name |-> "World", args |-> <<>>]
    /\ ret = NoRet
    /\ dirtied = {}
    /\ generated = {}
    /\ drained = 0
    /\ ray = NoRay

Init == InitWorld /\ coord = NoCoord

DoSetPosition == \E x \in PosXs, y \in PosYs, z \in PosZs : setPosition(x, y, z)
DoSetBlock == \E p \in EditPoints, b \in EditBlocks : setBlock(p[1], p[2], p[3], b)
DoChangeBlock == \E p \in EditPoints, b \in EditBlocks : changeBlock(p[1], p[2], p[3], b)
DoClear == clear
DoGetBlock == \E p \in QueryPoints : getBlock(p[1], p[2], p[3])
DoBlockAction ==
    \E p \in EditPoints, acted \in BOOLEAN, b \in EditBlocks :
        blockAction(p[1], p[2], p[3], acted, b)
DoConstruct == construct
DoSave == saveToFile
DoLoad == \E partial \in BOOLEAN : loadFromFile(Len(file), partial)
\* A load from a stream that was cut off.
DoLoadCut == \E len \in 0..(Len(file) - 1), partial \in BOOLEAN : loadFromFile(len, partial)

\* The operations on a World, without its persistence.
Next ==
    \/ DoSetPosition
    \/ DoSetBlock
    \/ DoChangeBlock
    \/ DoClear
    \/ DoConstruct
    \/ DoGetBlock
    \/ DoBlockAction

Spec == Init /\ [][Next]_vars

\* Persistence, on worlds of at most MaxChunks chunks.
IOPositions == {<<0, 0, 0>>, <<0, HEIGHT * ChunkSpan, 0>>}
IOSetPosition ==
    \E p \in IOPositions :
        /\ Len(VisitOrder(field_of_view, CenterOf(p[1], p[2], p[3])[2])) <= MaxChunks
        /\ setPosition(p[1], p[2], p[3])
        /\ Len(all_chunks') <= MaxChunks

\* Edits of a cell of chunk (0,0,0), which the positions above generate, and
\* of a cell of chunk (-1,1,0), which they do not.
IOEdits == {<<0, 0, 0, BLOCK_AIR>>, <<0, 0, 0, BLOCK_STONE>>, <<-1, 9, 0, BLOCK_STONE>>}
IOSetBlock == \E e \in IOEdits : setBlock(e[1], e[2], e[3], e[4])
\* A changeBlock and a blockAction on the cell of chunk (0,0,0).
IOChangeBlock == changeBlock(0, 0, 0, BLOCK_AIR)
IOBlockAction == \E acted \in BOOLEAN : blockAction(0, 0, 0, acted, BLOCK_STONE)

NextIO ==
    \/ IOSetPosition
    \/ IOSetBlock
    \/ IOChangeBlock
    \/ IOBlockAction
    \/ DoClear
    \/ DoConstruct
    \/ DoSave
    \/ DoLoad

SpecIO == Init /\ [][NextIO]_vars

\* Loads from streams that were cut off.  The host discards a World whose
\* load failed on such a stream and starts over with a new one.
Usable == ~ (op.name = "loadFromFile" /\ op.args # <<"whole">>)
TruncSetPosition == Usable /\ IOSetPosition
TruncSetBlock == Usable /\ IOSetBlock
TruncSave == Usable /\ DoSave

NextTrunc ==
    \/ TruncSetPosition
    \/ TruncSetBlock
    \/ TruncSave
    \/ DoLoadCut
    \/ DoConstruct

SpecTrunc == Init /\ [][NextTrunc]_vars

\* Ray queries on what setPosition made visible.
RayPositions == {<<0, 0, 0>>, <<0, HEIGHT * ChunkSpan, 0>>}
RaySetPosition == \E p \in RayPositions : setPosition(p[1], p[2], p[3])
DoIntersectsRay ==
    \E H \in SUBSET (1..MinOf(Len(visible_chunks), MaxTargets)) :
        /\ Cardinality(H) <= MaxHits
        /\ \E hits \in HitMaps(H) : intersectsRay(hits)

NextRay ==
    \/ RaySetPosition
    \/ DoClear
    \/ DoIntersectsRay

SpecRay == Init /\ [][NextRay]_vars

\* getLocal and getChunk as functions of their argument.
IntMin == -2147483647 - 1
IntMax == -(IntMin + 1)
CoordArgs == (-MaxCoord..MaxCoord) \cup {IntMin, IntMin + 1, IntMax - 8, IntMax}

InitCoord ==
    /\ InitWorld
    /\ \E g \in CoordArgs : coord = [NoCoord EXCEPT !.arg = g]

ApplyCoord ==
    /\ ~ coord.done
    /\ coord' = [arg |-> coord.arg, chunk |-> getChunk(coord.arg),
                 local |-> getLocal(coord.arg), done |-> TRUE]
    /\ UNCHANGED <<world, disk, op, ret, dirtied, generated, drained, ray>>

NextCoord == ApplyCoord

SpecCoord == InitCoord /\ [][NextCoord]_vars

(***************************************************************************)
(* Properties.                                                             *)
(***************************************************************************)

\* C4: for every int g that getChunk and getLocal were applied to,
\* getChunk(g) * 8 + getLocal(g) = g and 0 <= getLocal(g) < 8.
C4_CoordinateRoundTrip ==
    coord.done =>
        /\ coord.chunk * 8 + coord.local = coord.arg
        /\ 0 <= coord.local
        /\ coord.local < 8
\* A negative coordinate that is not a multiple of 8 has been split.
C4_Witness == coord.done /\ coord.arg < 0 /\ coord.local # 0

\* The registry holds a chunk at the coordinate the pending entry bc targets.
TargetRegistered(bc) == findChunk(all_chunks, bc.chunk_x, bc.chunk_y, bc.chunk_z) # 0

\* C1: in every state reached by setBlock, changeBlock, setPosition, clear,
\* saveToFile and loadFromFile of a saved stream, every entry of the
\* pending-change queue targets a coordinate at which the registry holds no
\* chunk.
C1_PendingTargetsAbsent ==
    \A i \in 1..Len(pending_block_changes) :
        ~ TargetRegistered(pending_block_changes[i])

\* The pending entry bc targets the coordinate of chunk c.
Aims(bc, c) == bc.chunk_x = c.x /\ bc.chunk_y = c.y /\ bc.chunk_z = c.z
\* Entries a and b address the same cell of the same chunk.
SameCell(a, b) ==
    /\ a.chunk_x = b.chunk_x /\ a.chunk_y = b.chunk_y /\ a.chunk_z = b.chunk_z
    /\ a.local_x = b.local_x /\ a.local_y = b.local_y /\ a.local_z = b.local_z
\* The queue entry a setBlock(x, y, z, b) on an absent chunk leaves behind:
\* chunk coordinate g >> 3 and local coordinate g & 7, spelled arithmetically.
Deferred(e) ==
    \E p \in EditPoints :
        /\ e.chunk_x = p[1] \div 8 /\ e.local_x = p[1] % 8
        /\ e.chunk_y = p[2] \div 8 /\ e.local_y = p[2] % 8
        /\ e.chunk_z = p[3] \div 8 /\ e.local_z = p[3] % 8

\* C2: when a chunk is generated while the queue holds the entry of an
\* earlier setBlock(x,y,z,b) for it (the last one queued for that cell), then
\* right after the generation the new chunk holds b at (x&7, y&7, z&7) and the
\* queue has no entry that targets the new chunk.
C2_DeferredEditApplied ==
    [][\A k \in generated' :
          /\ \A i \in 1..Len(pending_block_changes) :
                LET e == pending_block_changes[i]
                IN (/\ Aims(e, all_chunks'[k])
                    /\ \A j \in (i + 1)..Len(pending_block_changes) :
                          ~ SameCell(pending_block_changes[j], e))
                   => /\ Deferred(e)
                      /\ all_chunks'[k].blocks[<<e.local_x, e.local_y, e.local_z>>]
                            = e.block
          /\ \A j \in 1..Len(pending_block_changes') :
                ~ Aims(pending_block_changes'[j], all_chunks'[k])]_vars
\* A chunk generated by the last operation holds a block its terrain does not
\* have there: a deferred edit was applied to it.
C2_Witness ==
    \E k \in generated : \E cell \in Cells :
        all_chunks[k].blocks[cell]
            # Terrain(noise_seed, all_chunks[k].x, all_chunks[k].y, all_chunks[k].z, cell)

\* C3: generating chunks leaves every pending entry that targets another
\* coordinate in the queue, unchanged and in the same relative order.
C3_DrainIsolation ==
    [][generated' # {} =>
          LET Stays(e) == \A k \in generated' : ~ Aims(e, all_chunks'[k])
          IN pending_block_changes' = SelectSeq(pending_block_changes, Stays)]_vars
\* The last operation generated a chunk and drained an entry into it, and an
\* entry for another chunk is still queued.
C3_Witness ==
    /\ pending_block_changes # <<>>
    /\ \E k \in generated :
          all_chunks[k].blocks # NewChunk(noise_seed, all_chunks[k].x, all_chunks[k].y,
                                          all_chunks[k].z).blocks

\* The coordinates of the chunks in the visible set.
VisibleCoords(chunks, visible) ==
    {<<chunks[visible[i]].x, chunks[visible[i]].y, chunks[visible[i]].z>> :
        i \in 1..Len(visible)}
\* round(sqrt(n)) <= R, for natural n and R: sqrt(n) < R + 1/2.
RoundedWithin(n, R) == 4 * n < (2 * R + 1) * (2 * R + 1)
\* The chunk coordinates around center C at rounded Euclidean distance <= R
\* with the vertical coordinate in [0, HEIGHT - 1].
Sphere(C, R) ==
    {<<C[1] + dx, C[2] + dy, C[3] + dz>> :
        <<dx, dy, dz>> \in
            {d \in (-(R + 1)..(R + 1)) \X (-(R + 1)..(R + 1)) \X (-(R + 1)..(R + 1)) :
                /\ RoundedWithin(d[1] * d[1] + d[2] * d[2] + d[3] * d[3], R)
                /\ 0 <= C[2] + d[2]
                /\ C[2] + d[2] <= HEIGHT - 1}}

\* C5: after a setPosition that recomputes visibility around center C with
\* view radius R, the visible set holds exactly the chunks at the offsets
\* whose rounded Euclidean length is <= R and whose vertical coordinate is in
\* [0, HEIGHT-1], each of them once.
C5_VisibleSphere ==
    [][(/\ op'.name = "setPosition"
        /\ (~ loaded \/ <<cen_x', cen_y', cen_z'>> # <<cen_x, cen_y, cen_z>>))
       => /\ VisibleCoords(all_chunks', visible_chunks')
                = Sphere(<<cen_x', cen_y', cen_z'>>, field_of_view')
          /\ Cardinality(VisibleCoords(all_chunks', visible_chunks'))
                = Len(visible_chunks')
          /\ Cardinality({visible_chunks'[i] : i \in 1..Len(visible_chunks')})
                = Len(visible_chunks')]_vars
\* A recomputation with two shells around the upper layer has taken place.
C5_Witness ==
    /\ op.name = "setPosition"
    /\ generated # {}
    /\ field_of_view = 2
    /\ cen_y = HEIGHT - 1
    /\ Len(visible_chunks) > 1

\* The chunk coordinate the position component v maps to.
ChunkOfPos(v) == (v \div BLOCK_SIZE) \div 8
\* The vertical chunk coordinate after the clamp into [0, HEIGHT - 1].
ClampedChunkOfPos(v) ==
    IF ChunkOfPos(v) < 0 THEN 0
    ELSE IF ChunkOfPos(v) > HEIGHT - 1 THEN HEIGHT - 1 ELSE ChunkOfPos(v)

\* C6: a setPosition whose position maps, after the vertical clamp, to the
\* chunk coordinate that is already the center leaves the visible set, the
\* centered coordinate, the chunk registry and the pending-change queue
\* unchanged, and generates no chunk.
C6_SameChunkNoRecompute ==
    [][(/\ op'.name = "setPosition"
        /\ loaded
        /\ ChunkOfPos(op'.args[1]) = cen_x
        /\ ClampedChunkOfPos(op'.args[2]) = cen_y
        /\ ChunkOfPos(op'.args[3]) = cen_z)
       => /\ UNCHANGED <<visible_chunks, cen_x, cen_y, cen_z, all_chunks,
                         pending_block_changes>>
          /\ generated' = {}
          /\ dirtied' = {}]_vars
\* A setPosition at another position of the one chunk the World has ever
\* centered: the registry holds that chunk alone and nothing was generated.
C6_Witness ==
    /\ op.name = "setPosition"
    /\ op.args[1] # 0
    /\ loaded
    /\ generated = {}
    /\ Len(all_chunks) = 1
    /\ visible_chunks = <<1>>

\* A World that holds no chunk and was never centered, as a fresh one.
Fresh == all_chunks = <<>> /\ visible_chunks = <<>> /\ ~ loaded

\* C7: loading the stream saveToFile wrote into a fresh World reproduces the
\* seed, the pending-change records in their order, the view radius, and the
\* saved chunks with their coordinates and block content.
C7_SaveLoadRoundTrip ==
    [][(/\ op'.name = "loadFromFile"
        /\ op'.args = <<"whole">>
        /\ Fresh)
       => /\ seed' = saved.seed
          /\ noise_seed' = saved.seed
          /\ pending_block_changes' = saved.pending
          /\ field_of_view' = saved.fov
          /\ all_chunks' = saved.chunks]_vars
\* A World that was never centered holds, after a load, one chunk with an
\* edited block, and a pending entry.
C7_Witness ==
    /\ op.name = "loadFromFile"
    /\ op.args = <<"whole">>
    /\ ~ loaded
    /\ visible_chunks = <<>>
    /\ pending_block_changes # <<>>
    /\ Len(all_chunks) = 1
    /\ \E k \in 1..Len(all_chunks) :
          all_chunks[k].blocks # NewChunk(noise_seed, all_chunks[k].x, all_chunks[k].y,
                                          all_chunks[k].z).blocks

\* The places inside a field or record where a stream can end.
InsideKinds == {"seed", "count", "pending", "fov", "coords", "body"}

\* C8: loadFromFile returns false whenever the stream ends inside the seed,
\* the pending count, the pending records, the view radius, a chunk
\* coordinate triple or a chunk body.
C8_TruncatedLoadFails ==
    (op.name = "loadFromFile" /\ op.args[1] \in InsideKinds) => ret = FALSE
\* A load from a stream that ends inside the body of a chunk record.
C8_Witness == op.name = "loadFromFile" /\ op.args = <<"body">> /\ ret = FALSE

\* The visible chunks that reported a hit in the last ray query.
Hitters == {i \in DOMAIN ray.hits : ray.hits[i].hit}
\* The world-space position of the hit visible chunk i reported: the chunk
\* coordinate times 8 plus the chunk-local position.
HitWorldPos(i) ==
    LET c == all_chunks[visible_chunks[i]]
        p == ray.hits[i].pos
    IN <<c.x * 8 + p[1], c.y * 8 + p[2], c.z * 8 + p[3]>>
\* Visible chunk i reported the hit that is strictly nearer than all others.
StrictlyNearest(i) ==
    /\ i \in Hitters
    /\ \A j \in Hitters \ {i} : ray.hits[i].dist < ray.hits[j].dist
\* Visible chunk i reported a hit at the minimal distance.
Nearest(i) ==
    /\ i \in Hitters
    /\ \A j \in Hitters : ray.hits[i].dist <= ray.hits[j].dist
\* More than one visible chunk reported a hit at the minimal distance.
Tie == Cardinality({i \in Hitters : Nearest(i)}) > 1

\* C9: when visible chunks report hits at different distances, intersectsRay
\* returns true with the world-space position and the side of the strictly
\* nearer hit, wherever the chunks are in the visible set; when no visible
\* chunk reports a hit it returns false.
C9_NearestHit ==
    op.name = "intersectsRay" =>
        /\ Hitters = {} => ret = FALSE
        /\ \A i \in Hitters :
              (StrictlyNearest(i) /\ Cardinality(Hitters) > 1)
              => /\ ret = TRUE
                 /\ ray.result = HitWorldPos(i)
                 /\ ray.side = ray.hits[i].side
\* Two chunks were hit at different distances and the nearer hit is the one
\* of the chunk that comes later in the visible set.
C9_Witness ==
    /\ op.name = "intersectsRay"
    /\ \E i \in Hitters : \E j \in Hitters :
          /\ j < i
          /\ StrictlyNearest(i)
          /\ ray.hits[i].side # ray.hits[j].side
          /\ ray.result = HitWorldPos(i)

\* C10 as the specification states it: among hits at the same minimal
\* distance, intersectsRay returns the position and side of the one that
\* comes first in visible-set order.
C10_TieFirst ==
    (op.name = "intersectsRay" /\ Tie) =>
        LET first == CHOOSE i \in Hitters :
                        Nearest(i) /\ \A j \in Hitters : Nearest(j) => i <= j
        IN ray.result = HitWorldPos(first) /\ ray.side = ray.hits[first].side
\* C10 amended: among hits at the same minimal distance, intersectsRay
\* returns the position and side of the one that comes last in visible-set
\* order.
C10_TieLast ==
    (op.name = "intersectsRay" /\ Tie) =>
        LET last == CHOOSE i \in Hitters :
                       Nearest(i) /\ \A j \in Hitters : Nearest(j) => j <= i
        IN ray.result = HitWorldPos(last) /\ ray.side = ray.hits[last].side
\* Two chunks were hit at the same distance on different sides.
C10_Witness ==
    /\ op.name = "intersectsRay"
    /\ Tie
    /\ \E i \in Hitters : \E j \in Hitters :
          Nearest(i) /\ Nearest(j) /\ ray.hits[i].side # ray.hits[j].side

\* The registry holds no chunk at the chunk coordinate of world coordinate p.
AbsentAt(p) ==
    \A i \in 1..Len(all_chunks) :
        <<all_chunks[i].x, all_chunks[i].y, all_chunks[i].z>>
            # <<p[1] \div 8, p[2] \div 8, p[3] \div 8>>

\* C11: getBlock(x,y,z) for a coordinate whose chunk is not in the registry
\* returns air when the vertical chunk coordinate equals HEIGHT and stone for
\* every other one, and getBlock changes no state of the World.
C11_GetBlockFallback ==
    [][op'.name = "getBlock" =>
          /\ UNCHANGED world
          /\ AbsentAt(op'.args) =>
                ret' = IF op'.args[2] \div 8 = HEIGHT THEN BLOCK_AIR ELSE BLOCK_STONE]_vars
\* getBlock has returned air for an absent chunk of the layer HEIGHT while
\* the World holds chunks.
C11_Witness ==
    /\ op.name = "getBlock"
    /\ AbsentAt(op.args)
    /\ op.args[2] \div 8 = HEIGHT
    /\ ret = BLOCK_AIR
    /\ all_chunks # <<>>

\* C12: blockAction(x,y,z) on a coordinate whose chunk is not in the registry
\* returns false and leaves the registry, the visible set and the
\* pending-change queue unchanged.
C12_BlockActionAbsent ==
    [][(op'.name = "blockAction" /\ AbsentAt(op'.args)) =>
          /\ ret' = FALSE
          /\ UNCHANGED <<all_chunks, visible_chunks, pending_block_changes>>]_vars
\* blockAction has been called on an absent chunk of a World that holds
\* chunks and a pending entry.
C12_Witness ==
    /\ op.name = "blockAction"
    /\ AbsentAt(op.args)
    /\ ret = FALSE
    /\ all_chunks # <<>>
    /\ pending_block_changes # <<>>

\* C13: clear() leaves the registry and the visible set empty and the World
\* not loaded, with the seed and the view radius as they were; the
\* setPosition that follows recomputes visibility, also when it maps to the
\* chunk that was centered before.
C13_ClearResets ==
    [][/\ op'.name = "clear" =>
             /\ all_chunks' = <<>>
             /\ visible_chunks' = <<>>
             /\ loaded' = FALSE
             /\ seed' = seed
             /\ field_of_view' = field_of_view
       /\ (op.name = "clear" /\ op'.name = "setPosition") =>
             /\ loaded' = TRUE
             /\ generated' = 1..Len(all_chunks')
             /\ visible_chunks' # <<>>
             /\ VisibleCoords(all_chunks', visible_chunks')
                   = Sphere(<<ChunkOfPos(op'.args[1]), ClampedChunkOfPos(op'.args[2]),
                              ChunkOfPos(op'.args[3])>>, field_of_view)]_vars
\* clear() has been called on a World that was centered on the upper layer,
\* and the setPosition that brings back that center is at hand.
C13_Witness ==
    /\ op.name = "clear"
    /\ all_chunks = <<>>
    /\ ~ loaded
    /\ cen_y = HEIGHT - 1
    /\ field_of_view > 0
    /\ \E y \in PosYs : ClampedChunkOfPos(y) = cen_y

\* C14: loadFromFile returns true on a stream that a successful saveToFile
\* wrote and that ends exactly after its last chunk record, or right after
\* the view radius when it has no chunk record.
C14_WholeLoadSucceeds ==
    (op.name = "loadFromFile" /\ op.args = <<"whole">>) => ret = TRUE

\* Every chunk of the registry is still in it after the step, at its place.
RegistryKept ==
    /\ Len(all_chunks') >= Len(all_chunks)
    /\ \A i \in 1..Len(all_chunks) :
          <<all_chunks'[i].x, all_chunks'[i].y, all_chunks'[i].z>>
              = <<all_chunks[i].x, all_chunks[i].y, all_chunks[i].z>>

\* C15: through setPosition, setBlock, changeBlock, blockAction, clear and
\* loadFromFile on one World, every entry of the visible set refers to a
\* chunk of the registry; only clear() removes chunks from the registry, and
\* it empties the visible set in the same call.
C15_VisibleInRegistry ==
    [][op'.name # "World" =>
          /\ \A i \in 1..Len(visible_chunks') :
                visible_chunks'[i] \in 1..Len(all_chunks')
          /\ ~ RegistryKept => (op'.name = "clear" /\ visible_chunks' = <<>>)]_vars
\* After a load the World shows some of its chunks and holds more than it
\* shows.
C15_Witness ==
    /\ op.name = "loadFromFile"
    /\ visible_chunks # <<>>
    /\ Len(all_chunks) > Len(visible_chunks)

\* C16: when the queue holds several entries for the same local cell of the
\* same absent chunk, generating that chunk applies them in queue order: every
\* cell that has entries ends with the block of the entry queued last for it,
\* and the queue loses exactly the entries that target the generated chunks,
\* one removal for each.
C16_QueueOrderPerCell ==
    [][generated' # {} =>
          /\ \A k \in generated' :
                LET Mine(e) == Aims(e, all_chunks'[k])
                    mine == SelectSeq(pending_block_changes, Mine)
                IN \A cell \in Cells :
                      LET at == {i \in 1..Len(mine) :
                                    <<mine[i].local_x, mine[i].local_y, mine[i].local_z>> = cell}
                      IN at # {} =>
                            \E last \in at :
                                /\ \A i \in at : i <= last
                                /\ all_chunks'[k].blocks[cell] = mine[last].block
          /\ Len(pending_block_changes')
                = Len(pending_block_changes)
                  - Cardinality({i \in 1..Len(pending_block_changes) :
                                    \E k \in generated' :
                                        Aims(pending_block_changes[i], all_chunks'[k])})]_vars
\* The last operation generated one chunk and applied two queued entries to
\* it, and the chunk holds a block its terrain does not have there: the second
\* entry overrode the first.
C16_Witness ==
    /\ drained = 2
    /\ Cardinality(generated) = 1
    /\ \E k \in generated : \E cell \in Cells :
          all_chunks[k].blocks[cell]
              # Terrain(noise_seed, all_chunks[k].x, all_chunks[k].y, all_chunks[k].z, cell)

\* C17: whatever positions setPosition is given, below the floor and above
\* the ceiling included, and however edits and clear are interleaved, the
\* centered chunk coordinate it leaves, kept by the other operations, and
\* every chunk in the registry or in the visible set has its vertical
\* coordinate in [0, HEIGHT-1].
C17_VerticalRange ==
    [][/\ (op'.name = "setPosition" \/ cen_y \in 0..(HEIGHT - 1))
            => cen_y' \in 0..(HEIGHT - 1)
       /\ \A k \in 1..Len(all_chunks') : all_chunks'[k].y \in 0..(HEIGHT - 1)
       /\ \A i \in 1..Len(visible_chunks') :
             all_chunks'[visible_chunks'[i]].y \in 0..(HEIGHT - 1)]_vars
\* A setPosition above the ceiling, after an edit was queued for another
\* chunk, has centered the top layer and generated a chunk there.
C17_Witness ==
    /\ op.name = "setPosition"
    /\ op.args[2] >= HEIGHT * ChunkSpan
    /\ cen_y = HEIGHT - 1
    /\ \E k \in generated : all_chunks[k].y = HEIGHT - 1
    /\ pending_block_changes # <<>>

\* Two chunks whose coordinates differ by one along exactly one axis.
AxisAdjacent(a, b) ==
    \/ (a.y = b.y /\ a.z = b.z /\ (a.x = b.x + 1 \/ a.x = b.x - 1))
    \/ (a.x = b.x /\ a.z = b.z /\ (a.y = b.y + 1 \/ a.y = b.y - 1))
    \/ (a.x = b.x /\ a.y = b.y /\ (a.z = b.z + 1 \/ a.z = b.z - 1))

\* C18: the chunks an operation marks dirty are exactly, for each chunk it
\* generates, the chunks that were in the registry before that chunk and sit
\* at one of its six axis-adjacent coordinates; a neighbour coordinate with no
\* chunk generates nothing: every generated chunk is one that was made
\* visible.
C18_NeighboursDirtied ==
    [][generated' # {} =>
          /\ dirtied' = {i \in 1..Len(all_chunks') :
                            \E k \in generated' :
                                i < k /\ AxisAdjacent(all_chunks'[i], all_chunks'[k])}
          /\ \A k \in generated' :
                \E v \in 1..Len(visible_chunks') : visible_chunks'[v] = k]_vars
\* The last operation generated a chunk next to an older one, which it
\* marked, while another older chunk was not marked and a neighbour coordinate
\* of the new chunk has no chunk.
C18_Witness ==
    /\ \E k \in generated :
          /\ \E i \in dirtied : i \notin generated /\ AxisAdjacent(all_chunks[i], all_chunks[k])
          /\ findChunk(all_chunks, all_chunks[k].x, all_chunks[k].y, all_chunks[k].z + 1) = 0
    /\ \E i \in 1..Len(all_chunks) : i \notin generated /\ i \notin dirtied

\* C19: in every state reached by setPosition, setBlock, changeBlock,
\* blockAction and clear, no two chunks of the registry have the same
\* coordinate triple.
C19_OneChunkPerCoord ==
    \A i, j \in 1..Len(all_chunks) :
        i # j => <<all_chunks[i].x, all_chunks[i].y, all_chunks[i].z>>
                    # <<all_chunks[j].x, all_chunks[j].y, all_chunks[j].z>>
\* The last setPosition generated a chunk and made visible another one that
\* was in the registry before: the lookup found it.
C19_Witness ==
    /\ op.name = "setPosition"
    /\ generated # {}
    /\ \E v \in 1..Len(visible_chunks) : visible_chunks[v] \notin generated

\* Pending entry e is a queued change of the cell of point p.
QueuedFor(e, p) ==
    /\ e.chunk_x = p[1] \div 8 /\ e.local_x = p[1] % 8
    /\ e.chunk_y = p[2] \div 8 /\ e.local_y = p[2] % 8
    /\ e.chunk_z = p[3] \div 8 /\ e.local_z = p[3] % 8

\* C20: getBlock answers from the registry alone.  A getBlock(x,y,z) right
\* after setBlock(x,y,z,b) returns b when the chunk of the coordinate is in
\* the registry; and as long as that chunk is absent, whatever changes the
\* queue holds for the cell, getBlock(x,y,z) returns the fallback: air in the
\* layer HEIGHT, stone elsewhere.
C20_GetBlockIgnoresQueue ==
    [][op'.name = "getBlock" =>
          /\ (/\ op.name = "setBlock"
              /\ <<op.args[1], op.args[2], op.args[3]>> = op'.args
              /\ ~ AbsentAt(op'.args))
                => ret' = op.args[4]
          /\ (/\ AbsentAt(op'.args)
              /\ \E i \in 1..Len(pending_block_changes) :
                    QueuedFor(pending_block_changes[i], op'.args))
                => ret' = IF op'.args[2] \div 8 = HEIGHT THEN BLOCK_AIR ELSE BLOCK_STONE]_vars
\* A getBlock on a coordinate whose chunk is absent while a change to another
\* block is queued for it returned the fallback, with chunks in the registry.
C20_Witness ==
    /\ op.name = "getBlock"
    /\ AbsentAt(op.args)
    /\ all_chunks # <<>>
    /\ \E i \in 1..Len(pending_block_changes) :
          /\ QueuedFor(pending_block_changes[i], op.args)
          /\ pending_block_changes[i].block # ret
    /\ ret = BLOCK_STONE

====
